---------------------------- MODULE Spec2Model ----------------------------
(***************************************************************************)
(* A model of the executable-memory scripts of the repository:             *)
(*   experiments/002-self-modifying-memory/code/jit_fibonacci.py           *)
(*   experiments/002-self-modifying-memory/code/self_modify.py (PART 4, 5) *)
(*   experiments/002-self-modifying-memory/code/validate_mmap.py           *)
(*   experiments/004-executable-image/code/image_executor_v2.py            *)
(*     (execute_code)                                                      *)
(* Each script is a straight-line program over one anonymous mmap region,  *)
(* a ctypes function pointer into it and the x86-64 routine it wrote       *)
(* there.  The model keeps the script position (pc), the authoring buffer, *)
(* the region (size, protection, bytes, file position), the function       *)
(* pointer and the processor state of a call in flight.                    *)
(*                                                                         *)
(* 32-bit quantities are kept as four bytes, least significant first, the  *)
(* layout struct.pack('<I', v) and the imm32 operand of the instructions   *)
(* use; arithmetic on them is modulo 2^32.                                 *)
(***************************************************************************)
EXTENDS Integers, Sequences, FiniteSets, TLC

VARIABLES
    prog,       \* which script runs
    cap,        \* the length argument of mmap.mmap
    pad,        \* extra one-byte instructions emitted in the loop body
    junk,       \* the value the caller leaves in registers the ABI does not set
    pc,         \* position in the script
    buf,        \* the bytearray under construction (fibonacci_code)
    lab,        \* the offsets the authoring code remembers
    region,     \* the mmap object
    handle,     \* the ctypes function pointer
    cpu,        \* the processor while a call is in flight
    i,          \* the loop variable of the script
    results,    \* the values the calls returned, oldest first
    read_back,  \* validate_mmap.py: what mem.read returned
    all_match,  \* jit_fibonacci.py: the comparison flag
    err,        \* the exception that ended the script, or "none"
    env         \* the local variables of the function that runs, by name
                \* (the scripts that compute on data rather than on memory)

vars == <<prog, cap, pad, junk, pc, buf, lab, region, handle, cpu, i,
          results, read_back, all_match, err, env>>

(***************************************************************************)
(* Bounds of the model.                                                    *)
(***************************************************************************)
\* largest argument of the Fibonacci comparison loop
MaxN == 20
\* pad is a multiple of PadStep, at most MaxPads multiples
PadStep == 35
MaxPads == 3
\* the longest run of nops in a routine given to the image encoder
MaxImageNops == 8
\* the longest source text and the longest secret message given to the
\* whitespace encoder
MaxTextLen == 3
MaxMessageLen == 2
\* the longest data encoded as A records and the longest payload split into
\* DNS labels
MaxDataLen == 5
MaxPayloadLen == 130
\* the most bytes a random source answers with
MaxRandomBytes == 2
\* a capacity smaller than every routine of the scripts
SmallCap == 4
\* a capacity the six-byte routines fit and the Fibonacci routine does not
MidCap == 6

(***************************************************************************)
(* Program constants.                                                      *)
(***************************************************************************)
PageSize == 4096
PatchRounds == 10
PatchScale == 100
PerfN == 30
ReadLen == 6

(***************************************************************************)
(* 32-bit words as four bytes, little-endian.                              *)
(***************************************************************************)
\* struct.pack('<I', v) for 0 <= v < 2^31
Pack32(v) ==
    << v % 256, (v \div 256) % 256, (v \div 65536) % 256, (v \div 16777216) % 256 >>

\* sign extension of an imm8 / rel8 to its integer value
SignExt8(b) == IF b >= 128 THEN b - 256 ELSE b

\* an imm8 sign-extended to 32 bits
Imm8To32(b) ==
    IF b >= 128 THEN << b, 255, 255, 255 >> ELSE << b, 0, 0, 0 >>

\* eax read as sign and 31-bit magnitude
CIntSignMagnitude(w) ==
    IF w[4] >= 128
    THEN 0 - (w[1] + 256 * w[2] + 65536 * w[3] + 16777216 * (w[4] - 128))
    ELSE w[1] + 256 * w[2] + 65536 * w[3] + 16777216 * w[4]

\* the value a c_uint32 return type reads from eax, as its two 16-bit
\* halves << high, low >>: the value is high * 65536 + low, which is past
\* the integers of the model checker when high >= 32768
CUInt32(w) == << w[3] + 256 * w[4], w[1] + 256 * w[2] >>

\* the value a c_int return type reads from eax
CInt(w) == w[1] + 256 * w[2] + 65536 * w[3] + 16777216 * SignExt8(w[4])

\* a + b + cin modulo 2^32, byte by byte
AddC(a, b, cin) ==
    LET s1 == a[1] + b[1] + cin
        s2 == a[2] + b[2] + (s1 \div 256)
        s3 == a[3] + b[3] + (s2 \div 256)
        s4 == a[4] + b[4] + (s3 \div 256)
    IN  << s1 % 256, s2 % 256, s3 % 256, s4 % 256 >>

Not32(a) == << 255 - a[1], 255 - a[2], 255 - a[3], 255 - a[4] >>
Add32(a, b) == AddC(a, b, 0)
Sub32(a, b) == AddC(a, Not32(b), 1)

XorBit(x, y, k) == (((x \div (2 ^ k)) % 2) + ((y \div (2 ^ k)) % 2)) % 2

Xor8(x, y) ==
    XorBit(x, y, 0) + (2 * XorBit(x, y, 1)) + (4 * XorBit(x, y, 2))
    + (8 * XorBit(x, y, 3)) + (16 * XorBit(x, y, 4)) + (32 * XorBit(x, y, 5))
    + (64 * XorBit(x, y, 6)) + (128 * XorBit(x, y, 7))

Xor32(a, b) ==
    << Xor8(a[1], b[1]), Xor8(a[2], b[2]), Xor8(a[3], b[3]), Xor8(a[4], b[4]) >>

Sign32(a) == a[4] >= 128
Zero32 == << 0, 0, 0, 0 >>

\* the 64-bit product of two unsigned 32-bit words, as eight bytes: long
\* multiplication, one byte column at a time
Mul64(a, b) ==
    LET t(k) == IF k >= 1 /\ k <= 4 THEN k ELSE 1
        m(x, y) == IF x >= 1 /\ x <= 4 /\ y >= 1 /\ y <= 4 THEN a[t(x)] * b[t(y)] ELSE 0
        col(k) == m(1, k) + m(2, k - 1) + m(3, k - 2) + m(4, k - 3)
        c1 == col(1)
        c2 == col(2) + (c1 \div 256)
        c3 == col(3) + (c2 \div 256)
        c4 == col(4) + (c3 \div 256)
        c5 == col(5) + (c4 \div 256)
        c6 == col(6) + (c5 \div 256)
        c7 == col(7) + (c6 \div 256)
        c8 == c7 \div 256
    IN  << c1 % 256, c2 % 256, c3 % 256, c4 % 256,
           c5 % 256, c6 % 256, c7 % 256, c8 % 256 >>

\* a product that keeps the low 16 bits only
Mul32Low16(a, b) == << Mul64(a, b)[1], Mul64(a, b)[2], 0, 0 >>

\* the low 32 bits of the product: the same for signed and unsigned operands
Mul32(a, b) == SubSeq(Mul64(a, b), 1, 4)

\* the high 32 bits of the product of the operands read as signed
MulHighSigned(a, b) ==
    Sub32(Sub32(SubSeq(Mul64(a, b), 5, 8), IF Sign32(a) THEN b ELSE Zero32),
          IF Sign32(b) THEN a ELSE Zero32)

(***************************************************************************)
(* The mmap object.  The region is anonymous, so it starts zero-filled:    *)
(* data holds the bytes up to the highest offset written so far and every  *)
(* byte past it reads 0.                                                   *)
(***************************************************************************)
NoRegion == [state |-> "none", size |-> 0, prot |-> {}, data |-> << >>, pos |-> 0]

\* a mapping without PROT_EXEC
MmapNewNoExec(length) ==
    [state |-> "open", size |-> length, prot |-> {"R", "W"},
     data |-> << >>, pos |-> 0]

\* mmap.mmap(-1, length, prot=PROT_READ | PROT_WRITE | PROT_EXEC, ...)
MmapNew(length) ==
    [state |-> "open", size |-> length, prot |-> {"R", "W", "X"},
     data |-> << >>, pos |-> 0]

RegionByte(r, off) == IF off < Len(r.data) THEN r.data[off + 1] ELSE 0

\* the bytes of data with bytes copied in at offset p
Overlay(data, p, bytes) ==
    LET n == IF Len(data) > p + Len(bytes) THEN Len(data) ELSE p + Len(bytes)
    IN  [k \in 1..n |->
            IF k > p /\ k <= p + Len(bytes) THEN bytes[k - p]
            ELSE IF k <= Len(data) THEN data[k] ELSE 0]

\* a write with no bounds check
MmapWriteUnchecked(r, bytes) == r.state = "open"

\* a write that does not look at whether the region is still mapped
MmapWriteFitsAnyState(r, bytes) ==
    r.pos <= r.size /\ r.size - r.pos >= Len(bytes)

\* mem.write(bytes) raises ValueError unless the bytes fit from the position
MmapWriteFits(r, bytes) ==
    r.state = "open" /\ r.pos <= r.size /\ r.size - r.pos >= Len(bytes)

\* a write that puts a zero byte after the data
MmapWriteTerminated(r, bytes) ==
    [r EXCEPT !.data = Overlay(r.data, r.pos, bytes \o << 0 >>),
              !.pos = r.pos + Len(bytes)]

\* a write that loses the last byte of the data
MmapWriteShort(r, bytes) ==
    [r EXCEPT !.data = Overlay(r.data, r.pos, SubSeq(bytes, 1, Len(bytes) - 1)),
              !.pos = r.pos + Len(bytes)]

\* mem.write(bytes): copy at the position and advance it
MmapWrite(r, bytes) ==
    [r EXCEPT !.data = Overlay(r.data, r.pos, bytes),
              !.pos = r.pos + Len(bytes)]

\* mem.seek(p) raises ValueError outside 0..size
MmapSeekFits(r, p) == r.state = "open" /\ p >= 0 /\ p <= r.size

\* a seek that leaves the position where it was
MmapSeekIgnored(r, p) == r

MmapSeek(r, p) == [r EXCEPT !.pos = p]

\* what mem.read(n) returns: the bytes from the position, cut at the size
MmapReadBytes(r, n) ==
    LET m == IF r.size - r.pos < n THEN r.size - r.pos ELSE n
    IN  [k \in 1..m |-> RegionByte(r, r.pos + k - 1)]

\* mem.read(n) advances the position by what it returned
MmapRead(r, n) == [r EXCEPT !.pos = r.pos + Len(MmapReadBytes(r, n))]

\* a close that fails on a region that is already closed
MmapCloseOnce(r) ==
    [r EXCEPT !.state = IF r.state = "closed" THEN "error" ELSE "closed"]

\* mem.close(): unmaps a mapped region, does nothing on a closed one
MmapClose(r) == [r EXCEPT !.state = "closed"]

(***************************************************************************)
(* The processor, for the instructions the routines of the scripts use.    *)
(* Registers are numbered as the ModRM byte numbers them: 0 eax, 1 ecx,    *)
(* 2 edx, 3 ebx, 4 esp, 5 ebp, 6 esi, 7 edi.  Any other opcode, a memory   *)
(* operand or an instruction pointer outside the region ends the call in   *)
(* status "fault": the process is killed or runs code the model does not   *)
(* follow.                                                                 *)
(***************************************************************************)
EAX == 0
ECX == 1
EDX == 2
ESI == 6
EDI == 7

Reg(c, k) == c.regs[k + 1]
SetReg(c, k, w) == [c EXCEPT !.regs[k + 1] = w]

IdleCpu ==
    [status |-> "idle", ip |-> 0, regs |-> [k \in 1..8 |-> Zero32],
     zf |-> FALSE, sf |-> FALSE, of |-> FALSE]

\* flags of a - b (cmp)
SubFlags(c, a, b) ==
    LET res == Sub32(a, b)
    IN  [c EXCEPT !.zf = (res = Zero32), !.sf = Sign32(res),
                  !.of = (Sign32(a) # Sign32(b)) /\ (Sign32(res) # Sign32(a))]

\* flags of a + b (add, inc)
AddFlags(c, a, b) ==
    LET res == Add32(a, b)
    IN  [c EXCEPT !.zf = (res = Zero32), !.sf = Sign32(res),
                  !.of = (Sign32(a) = Sign32(b)) /\ (Sign32(res) # Sign32(a))]

\* flags of imul: OF is set when the signed product does not fit 32 bits;
\* ZF and SF are left undefined by the architecture and are kept here (no
\* routine reads them before its next arithmetic instruction)
ImulFlags(c, a, b) ==
    [c EXCEPT !.of = MulHighSigned(a, b) #
                        (IF Sign32(Mul32(a, b)) THEN << 255, 255, 255, 255 >>
                         ELSE Zero32)]

\* flags of a logical result (xor)
LogicFlags(c, res) ==
    [c EXCEPT !.zf = (res = Zero32), !.sf = Sign32(res), !.of = FALSE]

Fault(c) == [c EXCEPT !.status = "fault"]

\* jl: SF # OF, without ZF
JlTaken(c) == c.sf # c.of

\* jle: ZF = 1 or SF # OF
JleTaken(c) == c.zf \/ (c.sf # c.of)

\* one instruction at c.ip of region r
Exec(c, r) ==
    IF r.state # "open" \/ "X" \notin r.prot \/ c.ip < 0 \/ c.ip >= r.size
    THEN Fault(c)
    ELSE
    LET op  == RegionByte(r, c.ip)
        b1  == RegionByte(r, c.ip + 1)
        md  == b1 \div 64
        reg == (b1 \div 8) % 8
        rm  == b1 % 8
        nx(n) == [c EXCEPT !.ip = c.ip + n]
    IN  CASE op = 144 -> nx(1)                                   \* 90: nop
          [] op = 195 -> [c EXCEPT !.status = "returned"]         \* c3: ret
          [] op >= 184 /\ op <= 191 ->                            \* b8+r: mov r32, imm32
                SetReg(nx(5), op - 184,
                       << b1, RegionByte(r, c.ip + 2),
                          RegionByte(r, c.ip + 3), RegionByte(r, c.ip + 4) >>)
          [] op = 126 ->                                          \* 7e: jle rel8
                IF JleTaken(c) THEN nx(2 + SignExt8(b1)) ELSE nx(2)
          [] op = 131 /\ md = 3 /\ reg = 7 ->                     \* 83 /7 ib: cmp r/m32, imm8
                SubFlags(nx(3), Reg(c, rm), Imm8To32(RegionByte(r, c.ip + 2)))
          [] op = 137 /\ md = 3 ->                                \* 89 /r: mov r/m32, r32
                SetReg(nx(2), rm, Reg(c, reg))
          [] op = 1 /\ md = 3 ->                                  \* 01 /r: add r/m32, r32
                SetReg(AddFlags(nx(2), Reg(c, rm), Reg(c, reg)), rm,
                       Add32(Reg(c, rm), Reg(c, reg)))
          [] op = 57 /\ md = 3 ->                                 \* 39 /r: cmp r/m32, r32
                SubFlags(nx(2), Reg(c, rm), Reg(c, reg))
          [] op = 49 /\ md = 3 ->                                 \* 31 /r: xor r/m32, r32
                SetReg(LogicFlags(nx(2), Xor32(Reg(c, rm), Reg(c, reg))), rm,
                       Xor32(Reg(c, rm), Reg(c, reg)))
          [] op = 255 /\ md = 3 /\ reg = 0 ->                     \* ff /0: inc r/m32
                SetReg(AddFlags(nx(2), Reg(c, rm), << 1, 0, 0, 0 >>), rm,
                       Add32(Reg(c, rm), << 1, 0, 0, 0 >>))
          [] op = 15 /\ b1 = 175 /\ RegionByte(r, c.ip + 2) \div 64 = 3 ->
                                                                  \* 0f af /r: imul r32, r/m32
                LET b2 == RegionByte(r, c.ip + 2)
                    dst == (b2 \div 8) % 8
                    src == b2 % 8
                IN  SetReg(ImulFlags(nx(3), Reg(c, dst), Reg(c, src)), dst,
                           Mul32(Reg(c, dst), Reg(c, src)))
          [] OTHER -> Fault(c)

(***************************************************************************)
(* Calls through the ctypes function pointer.  The pointer is the base     *)
(* address of the region (offset 0).  The first integer argument travels   *)
(* in edi; every other register, and the flags, hold whatever the caller   *)
(* left there (junk).                                                      *)
(***************************************************************************)
NoHandle == [bound |-> FALSE, offset |-> 0, restype |-> "none", nargs |-> 0]

\* CFUNCTYPE(restype, *argtypes)(address), the address being offset bytes
\* past the base of the region: ctypes wraps whatever address and argument
\* list it is given
BindAt(offset, restype, nargs) ==
    [bound |-> TRUE, offset |-> offset, restype |-> restype, nargs |-> nargs]

\* FUNC_TYPE = CFUNCTYPE(restype, *argtypes); func = FUNC_TYPE(mem_addr)
NewHandle(restype, nargs) == BindAt(0, restype, nargs)

\* the processor at the entry of a call with the given edi
EnterCall(h, ediWord) ==
    [status |-> "running", ip |-> h.offset,
     regs |-> [k \in 1..8 |-> IF k = EDI + 1 THEN ediWord ELSE junk],
     zf |-> (junk = Zero32), sf |-> Sign32(junk), of |-> FALSE]

(***************************************************************************)
(* The reference implementation of jit_fibonacci.py.                       *)
(***************************************************************************)
RECURSIVE FibLoop(_, _, _, _)
\* for _ in range(k, n + 1): a, b = b, a + b
FibLoop(k, n, a, b) == IF k > n THEN b ELSE FibLoop(k + 1, n, b, a + b)

fib_python(n) == IF n <= 1 THEN n ELSE FibLoop(2, n, 0, 1)

(***************************************************************************)
(* Variable groups.                                                        *)
(***************************************************************************)
\* what the steps of the memory scripts never change
params == << prog, cap, pad, junk, env >>
auth == << buf, lab >>
outs == << results, read_back, all_match >>
\* what the steps that compute on data never change
machine == << cap, pad, junk, lab, region, handle, cpu, i, outs, err >>

NoEnv == << >>

NoLab ==
    [jle_patch_pos |-> 0, loop_start |-> 0, loop_end |-> 0,
     offset_to_loop |-> 0, return_n_pos |-> 0, jle_target_offset |-> 0]

\* n one-byte nop instructions
Nops(n) == [k \in 1..n |-> 144]

\* x & 0xff on a Python int
LowByte(x) == x % 256

(***************************************************************************)
(* jit_fibonacci.py: authoring fibonacci_code.                             *)
(***************************************************************************)
\* cmp edi, 1; jle placeholder; jle_patch_pos
Fib_EmitCmpJle ==
    /\ prog = "fib" /\ pc = "f_cmp_jle"
    /\ buf' = buf \o << 131, 255, 1 >> \o << 126, 0 >>
    /\ lab' = [lab EXCEPT !.jle_patch_pos = Len(buf') - 1]
    /\ pc' = "f_init"
    /\ UNCHANGED << params, region, handle, cpu, i, outs, err >>

\* the loop counter started at 1 instead of 2
Fib_EmitInitFromOne ==
    /\ prog = "fib" /\ pc = "f_init"
    /\ buf' = buf \o << 49, 192 >> \o << 186, 1, 0, 0, 0 >> \o << 185, 1, 0, 0, 0 >>
    /\ pc' = "f_mark_loop"
    /\ UNCHANGED << params, lab, region, handle, cpu, i, outs, err >>

\* xor eax, eax; mov edx, 1; mov ecx, 2
Fib_EmitInit ==
    /\ prog = "fib" /\ pc = "f_init"
    /\ buf' = buf \o << 49, 192 >> \o << 186, 1, 0, 0, 0 >> \o << 185, 2, 0, 0, 0 >>
    /\ pc' = "f_mark_loop"
    /\ UNCHANGED << params, lab, region, handle, cpu, i, outs, err >>

\* name = len(fibonacci_code): a label is a variable that holds the length
\* of the buffer at the moment of the assignment
MarkLabel(l, name, b) == [l EXCEPT ![name] = Len(b)]

\* loop_start = len(fibonacci_code)
Fib_MarkLoopStart ==
    /\ prog = "fib" /\ pc = "f_mark_loop"
    /\ lab' = MarkLabel(lab, "loop_start", buf)
    /\ pc' = "f_body"
    /\ UNCHANGED << params, buf, region, handle, cpu, i, outs, err >>

\* mov esi, edx; add esi, eax; mov eax, edx; mov edx, esi; inc ecx;
\* cmp ecx, edi -- preceded by pad nops (none in the script as committed)
Fib_EmitLoopBody ==
    /\ prog = "fib" /\ pc = "f_body"
    /\ buf' = buf \o Nops(pad) \o << 137, 214 >> \o << 1, 198 >> \o << 137, 208 >>
                  \o << 137, 242 >> \o << 255, 193 >> \o << 57, 249 >>
    /\ pc' = "f_loop_jle"
    /\ UNCHANGED << params, lab, region, handle, cpu, i, outs, err >>

\* the displacement byte of the backward jle
LoopDispByte(offset_to_loop) == LowByte(offset_to_loop)

\* loop_end; offset_to_loop = loop_start - (loop_end + 2); jle offset_to_loop & 0xff
Fib_EmitLoopJle ==
    /\ prog = "fib" /\ pc = "f_loop_jle"
    /\ LET loop_end == Len(buf)
           offset_to_loop == lab.loop_start - (loop_end + 2)
       IN  /\ lab' = [lab EXCEPT !.loop_end = loop_end,
                                 !.offset_to_loop = offset_to_loop]
           /\ buf' = buf \o << 126, LoopDispByte(offset_to_loop) >>
    /\ pc' = "f_ret_b"
    /\ UNCHANGED << params, region, handle, cpu, i, outs, err >>

\* mov eax, edx; ret
Fib_EmitReturnB ==
    /\ prog = "fib" /\ pc = "f_ret_b"
    /\ buf' = buf \o << 137, 208 >> \o << 195 >>
    /\ pc' = "f_mark_ret_n"
    /\ UNCHANGED << params, lab, region, handle, cpu, i, outs, err >>

\* return_n_pos = len(fibonacci_code)
Fib_MarkReturnN ==
    /\ prog = "fib" /\ pc = "f_mark_ret_n"
    /\ lab' = MarkLabel(lab, "return_n_pos", buf)
    /\ pc' = "f_ret_n"
    /\ UNCHANGED << params, buf, region, handle, cpu, i, outs, err >>

\* mov eax, edi; ret
Fib_EmitReturnN ==
    /\ prog = "fib" /\ pc = "f_ret_n"
    /\ buf' = buf \o << 137, 248 >> \o << 195 >>
    /\ pc' = "f_patch"
    /\ UNCHANGED << params, lab, region, handle, cpu, i, outs, err >>

\* the forward displacement taken from the displacement byte, not past it
PatchDispByteFromField(jle_target_offset) == LowByte(jle_target_offset + 1)

\* the displacement byte of the forward jle
PatchDispByte(jle_target_offset) == LowByte(jle_target_offset)

\* jle_target_offset = return_n_pos - (jle_patch_pos + 1)
PatchedLab(l) ==
    [l EXCEPT !.jle_target_offset = l.return_n_pos - (l.jle_patch_pos + 1)]

\* the displacement added to the byte at jle_patch_pos, not stored in it
PatchedBufAdded(b, l) ==
    [b EXCEPT ![l.jle_patch_pos + 1] =
        LowByte(b[l.jle_patch_pos + 1]
                    + PatchDispByte(l.return_n_pos - (l.jle_patch_pos + 1)))]

\* fibonacci_code[jle_patch_pos] = jle_target_offset & 0xff
PatchedBuf(b, l) ==
    [b EXCEPT ![l.jle_patch_pos + 1] =
        PatchDispByte(l.return_n_pos - (l.jle_patch_pos + 1))]

\* the offset is computed but the placeholder is left in the buffer
Fib_PatchJleSkipped ==
    /\ prog = "fib" /\ pc = "f_patch"
    /\ lab' = [lab EXCEPT !.jle_target_offset =
                              lab.return_n_pos - (lab.jle_patch_pos + 1)]
    /\ pc' = "f_mmap"
    /\ UNCHANGED << params, buf, region, handle, cpu, i, outs, err >>

\* jle_target_offset = return_n_pos - (jle_patch_pos + 1);
\* fibonacci_code[jle_patch_pos] = jle_target_offset & 0xff
Fib_PatchJle ==
    /\ prog = "fib" /\ pc = "f_patch"
    /\ lab' = PatchedLab(lab)
    /\ buf' = PatchedBuf(buf, lab)
    /\ pc' = "f_mmap"
    /\ UNCHANGED << params, region, handle, cpu, i, outs, err >>

(***************************************************************************)
(* Steps every script shares.                                              *)
(***************************************************************************)
\* mmap.mmap(-1, cap, prot=..., flags=...)
DoMmap(next) ==
    /\ region' = MmapNew(cap)
    /\ pc' = next
    /\ UNCHANGED << params, auth, handle, cpu, i, outs, err >>

\* mem.seek(p) (p < 0: no seek) then mem.write(bytes) then, with rewind,
\* mem.seek(0); a ValueError leaves the region as it is and sends the
\* script to fail
DoWrite(p, bytes, rewind, next, fail) ==
    LET r1 == IF p < 0 THEN region ELSE MmapSeek(region, p)
        ok == (p < 0 \/ MmapSeekFits(region, p)) /\ MmapWriteFits(r1, bytes)
        r2 == MmapWrite(r1, bytes)
    IN  /\ region' = IF ok THEN (IF rewind THEN MmapSeek(r2, 0) ELSE r2)
                     ELSE IF p >= 0 /\ MmapSeekFits(region, p) THEN r1
                     ELSE region
        /\ pc' = IF ok THEN next ELSE fail
        /\ err' = IF ok THEN err ELSE "ValueError"

\* mem_addr = ctypes.addressof(ctypes.c_char.from_buffer(mem));
\* func = CFUNCTYPE(restype, ...)(mem_addr)
DoBind(restype, nargs, next) ==
    /\ handle' = NewHandle(restype, nargs)
    /\ pc' = next
    /\ UNCHANGED << params, auth, region, cpu, i, outs, err >>

\* func(...): control passes to the region
DoCall(ediWord, next) ==
    /\ cpu' = EnterCall(handle, ediWord)
    /\ pc' = next
    /\ UNCHANGED << params, auth, region, handle, i, outs, err >>

\* mem.close()
DoClose(next) ==
    /\ region' = MmapClose(region)
    /\ pc' = next
    /\ UNCHANGED << params, auth, handle, cpu, i, outs, err >>

\* the processor executes one instruction of the routine; a fault kills
\* the process
CpuStep ==
    /\ cpu.status = "running"
    /\ cpu' = Exec(cpu, region)
    /\ pc' = IF cpu'.status = "fault" THEN "crashed" ELSE pc
    /\ err' = IF cpu'.status = "fault" THEN "fault" ELSE err
    /\ UNCHANGED << params, auth, region, handle, i, outs >>

(***************************************************************************)
(* jit_fibonacci.py: running fibonacci_code.                               *)
(***************************************************************************)
Fib_Mmap == prog = "fib" /\ pc = "f_mmap" /\ DoMmap("f_write")

\* mem.write(fibonacci_code); the script has no handler: an exception ends it
Fib_Write ==
    /\ prog = "fib" /\ pc = "f_write"
    /\ DoWrite(-1, buf, FALSE, "f_bind", "aborted")
    /\ UNCHANGED << params, auth, handle, cpu, i, outs >>

Fib_Bind == prog = "fib" /\ pc = "f_bind" /\ DoBind("c_int", 1, "f_loop")

\* for n in range(...): jit_result = fib_jit(n)
Fib_Call ==
    /\ prog = "fib" /\ pc = "f_loop" /\ i <= MaxN
    /\ DoCall(Pack32(i), "f_calling")

\* py_result = fib_python(n); if jit_result != py_result: all_match = False
Fib_Compare ==
    /\ prog = "fib" /\ pc = "f_calling" /\ cpu.status = "returned"
    /\ results' = Append(results, Reg(cpu, EAX))
    /\ all_match' = (all_match /\ CInt(Reg(cpu, EAX)) = fib_python(i))
    /\ i' = i + 1
    /\ cpu' = IdleCpu
    /\ pc' = "f_loop"
    /\ UNCHANGED << params, auth, region, handle, read_back, err >>

\* mem.close() moved in front of the timing loop
Fib_LoopDoneClosesFirst ==
    /\ prog = "fib" /\ pc = "f_loop" /\ i > MaxN
    /\ region' = MmapClose(region)
    /\ pc' = IF all_match THEN "f_perf" ELSE "done"
    /\ UNCHANGED << params, auth, handle, cpu, i, outs, err >>

\* if all_match: the timing loop, else straight to mem.close()
Fib_LoopDone ==
    /\ prog = "fib" /\ pc = "f_loop" /\ i > MaxN
    /\ pc' = IF all_match THEN "f_perf" ELSE "f_close"
    /\ UNCHANGED << params, auth, region, handle, cpu, i, outs, err >>

\* fib_jit(30), as the timing loop calls it
Fib_PerfCall ==
    /\ prog = "fib" /\ pc = "f_perf"
    /\ DoCall(Pack32(PerfN), "f_perf_calling")

Fib_PerfDone ==
    /\ prog = "fib" /\ pc = "f_perf_calling" /\ cpu.status = "returned"
    /\ cpu' = IdleCpu
    /\ pc' = "f_close"
    /\ UNCHANGED << params, auth, region, handle, i, outs, err >>

Fib_Close == prog = "fib" /\ pc = "f_close" /\ DoClose("done")

(***************************************************************************)
(* self_modify.py, PART 4: overwrite a routine in place.                   *)
(***************************************************************************)
shellcode_return_42 == << 184, 42, 0, 0, 0, 195 >>
shellcode_return_1337 == << 184, 57, 5, 0, 0, 195 >>

P4_Mmap == prog = "part4" /\ pc = "p4_mmap" /\ DoMmap("p4_write")

\* exec_mem.write(shellcode_return_42); exec_mem.seek(0)
P4_Write ==
    /\ prog = "part4" /\ pc = "p4_write"
    /\ DoWrite(-1, shellcode_return_42, TRUE, "p4_bind", "failed")
    /\ UNCHANGED << params, auth, handle, cpu, i, outs >>

P4_Bind == prog = "part4" /\ pc = "p4_bind" /\ DoBind("c_int", 0, "p4_call1")

\* result1 = func()
P4_Call1 == prog = "part4" /\ pc = "p4_call1" /\ DoCall(junk, "p4_calling1")

P4_Ret1 ==
    /\ prog = "part4" /\ pc = "p4_calling1" /\ cpu.status = "returned"
    /\ results' = Append(results, Reg(cpu, EAX))
    /\ cpu' = IdleCpu
    /\ pc' = "p4_overwrite"
    /\ UNCHANGED << params, auth, region, handle, i, read_back, all_match, err >>

\* exec_mem.seek(0); exec_mem.write(shellcode_return_1337); exec_mem.seek(0)
P4_Overwrite ==
    /\ prog = "part4" /\ pc = "p4_overwrite"
    /\ DoWrite(0, shellcode_return_1337, TRUE, "p4_call2", "failed")
    /\ UNCHANGED << params, auth, handle, cpu, i, outs >>

\* result2 = func()
P4_Call2 == prog = "part4" /\ pc = "p4_call2" /\ DoCall(junk, "p4_calling2")

P4_Ret2 ==
    /\ prog = "part4" /\ pc = "p4_calling2" /\ cpu.status = "returned"
    /\ results' = Append(results, Reg(cpu, EAX))
    /\ cpu' = IdleCpu
    /\ pc' = "p4_close"
    /\ UNCHANGED << params, auth, region, handle, i, read_back, all_match, err >>

P4_Close == prog = "part4" /\ pc = "p4_close" /\ DoClose("done")

(***************************************************************************)
(* self_modify.py, PART 5: patch the immediate between calls.              *)
(***************************************************************************)
base_code == << 184, 0, 0, 0, 0, 195 >>

\* the immediate packed most significant byte first ('>I')
new_bytes_big_endian(k) ==
    << 0, 0, ((k + 1) * PatchScale) \div 256, ((k + 1) * PatchScale) % 256 >>

\* new_value = (i + 1) * 100; new_bytes = struct.pack('<I', new_value)
new_bytes(k) == Pack32((k + 1) * PatchScale)

P5_Mmap == prog = "part5" /\ pc = "p5_mmap" /\ DoMmap("p5_write")

\* exec_mem2.write(bytes(base_code))
P5_Write ==
    /\ prog = "part5" /\ pc = "p5_write"
    /\ DoWrite(-1, base_code, FALSE, "p5_bind", "failed")
    /\ UNCHANGED << params, auth, handle, cpu, i, outs >>

P5_Bind == prog = "part5" /\ pc = "p5_bind" /\ DoBind("c_int", 0, "p5_loop")

\* for i in range(10): result = dynamic_func()
P5_Call ==
    /\ prog = "part5" /\ pc = "p5_loop" /\ i < PatchRounds
    /\ DoCall(junk, "p5_calling")

\* results.append(result)
P5_Append ==
    /\ prog = "part5" /\ pc = "p5_calling" /\ cpu.status = "returned"
    /\ results' = Append(results, Reg(cpu, EAX))
    /\ cpu' = IdleCpu
    /\ pc' = "p5_patch"
    /\ UNCHANGED << params, auth, region, handle, i, read_back, all_match, err >>

\* exec_mem2.seek(1); exec_mem2.write(new_bytes)
P5_Patch ==
    /\ prog = "part5" /\ pc = "p5_patch"
    /\ DoWrite(1, new_bytes(i), FALSE, "p5_loop", "failed")
    /\ i' = IF pc' = "p5_loop" THEN i + 1 ELSE i
    /\ UNCHANGED << params, auth, handle, cpu, outs >>

\* final_result = dynamic_func()
P5_FinalCall ==
    /\ prog = "part5" /\ pc = "p5_loop" /\ i >= PatchRounds
    /\ DoCall(junk, "p5_final")

\* results + [final_result]
P5_Final ==
    /\ prog = "part5" /\ pc = "p5_final" /\ cpu.status = "returned"
    /\ results' = Append(results, Reg(cpu, EAX))
    /\ cpu' = IdleCpu
    /\ pc' = "p5_close"
    /\ UNCHANGED << params, auth, region, handle, i, read_back, all_match, err >>

P5_Close == prog = "part5" /\ pc = "p5_close" /\ DoClose("done")

(***************************************************************************)
(* self_modify.py, PART 6: one routine per test case, each written over    *)
(* the last one in the same region.                                        *)
(***************************************************************************)
\* def jit_compile_add_mul(a_val, b_val, c_val): mov eax, a; mov ecx, b;
\* mov edx, c; imul ecx, edx; add eax, ecx; ret
jit_compile_add_mul(a_val, b_val, c_val) ==
    << 184 >> \o Pack32(a_val) \o << 185 >> \o Pack32(b_val)
        \o << 186 >> \o Pack32(c_val) \o << 15, 175, 202 >> \o << 1, 200 >>
        \o << 195 >>

\* the test cases of the script
test_cases == << << 1, 2, 3 >>, << 10, 5, 4 >>, << 100, 0, 999 >>, << 0, 7, 8 >> >>

\* operands that are negative, or whose product or sum leaves 32 bits
WideCases ==
    << << -5, 3, -4 >>, << 2147483647, 1, 1 >>,
       << -2000000000, 1000000000, 3 >>, << 7, 1073741824, 4 >>,
       << 0, -1, 2147483647 >>, << -2147483647, -2, 1 >> >>

AllCases == test_cases \o WideCases

\* x + y leaves the signed 32-bit range
AddOverflows(x, y) ==
    \/ x > 0 /\ y > 0 /\ x > 2147483647 - y
    \/ x < 0 /\ y < 0 /\ x < ((-2147483647) - 1) - y

\* x + y reduced modulo 2^32 and read as a signed 32-bit value
AddWrap(x, y) ==
    IF x > 0 /\ y > 0 /\ x > 2147483647 - y
    THEN ((x - 2147483647) - 1) + ((y - 2147483647) - 1)
    ELSE IF x < 0 /\ y < 0 /\ x < ((-2147483647) - 1) - y
    THEN ((x + 2147483647) + 1) + ((y + 2147483647) + 1)
    ELSE x + y

Abs(x) == IF x < 0 THEN 0 - x ELSE x

RECURSIVE SumOverflows(_, _, _)
\* adding step to acc n times leaves the signed 32-bit range on the way
SumOverflows(acc, step, n) ==
    IF n = 0 THEN FALSE
    ELSE AddOverflows(acc, step) \/ SumOverflows(acc + step, step, n - 1)

RECURSIVE SumExact(_, _, _)
\* acc + n * step, for a sum that stays inside the signed 32-bit range
SumExact(acc, step, n) ==
    IF n = 0 THEN acc ELSE SumExact(acc + step, step, n - 1)

RECURSIVE SumWrap(_, _, _)
\* acc + n * step modulo 2^32, read as a signed 32-bit value
SumWrap(acc, step, n) ==
    IF n = 0 THEN acc ELSE SumWrap(AddWrap(acc, step), step, n - 1)

\* a + b * c as a sum of the operand of larger magnitude, taken as many
\* times as the other operand says
StepOf(b, c) == IF Abs(c) <= Abs(b) THEN b ELSE c
CountOf(b, c) == IF Abs(c) <= Abs(b) THEN c ELSE b
SignedStep(b, c) == IF CountOf(b, c) < 0 THEN 0 - StepOf(b, c) ELSE StepOf(b, c)

\* expected = a + b * c does not fit a signed 32-bit integer
ExpectedOverflows(a, b, c) ==
    SumOverflows(a, SignedStep(b, c), Abs(CountOf(b, c)))

\* a + b * c modulo 2^32, read as a signed 32-bit value
WrappedAddMul(a, b, c) == SumWrap(a, SignedStep(b, c), Abs(CountOf(b, c)))

\* result == expected, expected being the unbounded Python integer
ResultIsExpected(w, a, b, c) ==
    ~ExpectedOverflows(a, b, c) /\ CInt(w) = WrappedAddMul(a, b, c)

P6_Mmap == prog = "part6" /\ pc = "p6_mmap" /\ DoMmap("p6_gen")

\* for a, b, c in test_cases: machine_code = jit_compile_add_mul(a, b, c)
P6_Generate ==
    /\ prog = "part6" /\ pc = "p6_gen" /\ i < Len(AllCases)
    /\ buf' = jit_compile_add_mul(AllCases[i + 1][1], AllCases[i + 1][2],
                                  AllCases[i + 1][3])
    /\ pc' = "p6_write"
    /\ UNCHANGED << params, lab, region, handle, cpu, i, outs, err >>

\* exec_mem3.seek(0); exec_mem3.write(machine_code)
P6_Write ==
    /\ prog = "part6" /\ pc = "p6_write"
    /\ DoWrite(0, buf, FALSE, "p6_bind", "failed")
    /\ UNCHANGED << params, auth, handle, cpu, i, outs >>

\* jit_func = FUNC_TYPE(jit_func_addr)
P6_Bind == prog = "part6" /\ pc = "p6_bind" /\ DoBind("c_int", 0, "p6_call")

\* result = jit_func()
P6_Call == prog = "part6" /\ pc = "p6_call" /\ DoCall(junk, "p6_calling")

\* expected = a + b * c; if result != expected: all_passed = False
P6_Check ==
    /\ prog = "part6" /\ pc = "p6_calling" /\ cpu.status = "returned"
    /\ results' = Append(results, Reg(cpu, EAX))
    /\ all_match' = (all_match /\ ResultIsExpected(Reg(cpu, EAX),
                        AllCases[i + 1][1], AllCases[i + 1][2], AllCases[i + 1][3]))
    /\ i' = i + 1
    /\ cpu' = IdleCpu
    /\ pc' = "p6_gen"
    /\ UNCHANGED << params, auth, region, handle, read_back, err >>

\* exec_mem3.close()
P6_Close ==
    /\ prog = "part6" /\ pc = "p6_gen" /\ i >= Len(AllCases)
    /\ DoClose("done")

(***************************************************************************)
(* validate_mmap.py: write, read back, call.                               *)
(***************************************************************************)
code_deadbeef == << 184, 239, 190, 173, 222, 195 >>

V_Mmap == prog = "validate" /\ pc = "v_mmap" /\ DoMmap("v_write")

\* mem.write(code); no handler: an exception ends the script
V_Write ==
    /\ prog = "validate" /\ pc = "v_write"
    /\ DoWrite(-1, code_deadbeef, FALSE, "v_read", "aborted")
    /\ UNCHANGED << params, auth, handle, cpu, i, outs >>

\* mem.seek(0); read_back = mem.read(6)
V_ReadBack ==
    /\ prog = "validate" /\ pc = "v_read"
    /\ read_back' = MmapReadBytes(MmapSeek(region, 0), ReadLen)
    /\ region' = MmapRead(MmapSeek(region, 0), ReadLen)
    /\ pc' = "v_bind"
    /\ UNCHANGED << params, auth, handle, cpu, i, results, all_match, err >>

V_Bind == prog = "validate" /\ pc = "v_bind" /\ DoBind("c_uint32", 0, "v_call")

\* result = func()
V_Call == prog = "validate" /\ pc = "v_call" /\ DoCall(junk, "v_calling")

V_Ret ==
    /\ prog = "validate" /\ pc = "v_calling" /\ cpu.status = "returned"
    /\ results' = Append(results, Reg(cpu, EAX))
    /\ cpu' = IdleCpu
    /\ pc' = "v_close"
    /\ UNCHANGED << params, auth, region, handle, i, read_back, all_match, err >>

V_Close == prog = "validate" /\ pc = "v_close" /\ DoClose("done")

(***************************************************************************)
(* image_executor_v2.py: main encodes the shellcode into an image, decodes *)
(* it and executes what it decoded.  An image is its size and its pixels,  *)
(* one (r, g, b) per coordinate; PNG is lossless, so the image opened is   *)
(* the image saved.                                                        *)
(***************************************************************************)
\* int(n ** 0.5)
ISqrt(n) == CHOOSE k \in 0..n : k * k <= n /\ (k + 1) * (k + 1) > n

\* width = int(code_length ** 0.5) + 1
ImageWidth(code_length) == ISqrt(code_length) + 1

\* a height without the extra row
ImageHeightExact(code_length) == code_length \div ImageWidth(code_length)

\* height = (code_length // width) + 1
ImageHeight(code_length) == (code_length \div ImageWidth(code_length)) + 1

\* Image.new('RGB', (width, height), color=(0, 0, 0)); ok turns false when
\* a pixel outside the image is addressed (IndexError)
NewImage(width, height) ==
    [width |-> width, height |-> height, ok |-> TRUE,
     pixels |-> [p \in (0..(width - 1)) \X (0..(height - 1)) |-> << 0, 0, 0 >>]]

RECURSIVE PutPixels(_, _, _)
\* for i, byte in enumerate(code_bytes): pixels[i % width, i // width] =
\* (byte, 255, 0) -- from the k-th byte on
PutPixels(img, code_bytes, k) ==
    IF k > Len(code_bytes) THEN img
    ELSE LET xy == << (k - 1) % img.width, (k - 1) \div img.width >>
         IN  IF xy \in DOMAIN img.pixels
             THEN PutPixels([img EXCEPT !.pixels[xy] = << code_bytes[k], 255, 0 >>],
                            code_bytes, k + 1)
             ELSE [img EXCEPT !.ok = FALSE]

encode_code_to_image(code_bytes) ==
    PutPixels(NewImage(ImageWidth(Len(code_bytes)), ImageHeight(Len(code_bytes))),
              code_bytes, 1)

RECURSIVE GetPixels(_, _, _, _)
\* for i in range(code_length): r, g, b = pixels[i % width, i // width];
\* if g == 255: code_bytes.append(r) -- from index idx on; ok turns false
\* when a pixel outside the image is addressed (IndexError)
GetPixels(img, code_length, idx, acc) ==
    IF idx >= code_length THEN [ok |-> TRUE, code_bytes |-> acc]
    ELSE LET xy == << idx % img.width, idx \div img.width >>
         IN  IF xy \notin DOMAIN img.pixels THEN [ok |-> FALSE, code_bytes |-> acc]
             ELSE GetPixels(img, code_length, idx + 1,
                            IF img.pixels[xy][2] = 255
                            THEN Append(acc, img.pixels[xy][1]) ELSE acc)

decode_code_from_image(img, code_length) == GetPixels(img, code_length, 0, << >>)

\* width, height, code_length = encode_code_to_image(shellcode, img_path)
M_Encode ==
    /\ prog = "image" /\ pc = "m_encode"
    /\ LET img == encode_code_to_image(buf)
       IN  /\ env' = [img |-> img, code_length |-> Len(buf), extracted_code |-> << >>]
           /\ pc' = IF img.ok THEN "m_decode" ELSE "aborted"
           /\ err' = IF img.ok THEN err ELSE "IndexError"
    /\ UNCHANGED << prog, cap, pad, junk, auth, region, handle, cpu, i, outs >>

\* extracted_code = decode_code_from_image(img_path, code_length)
M_Decode ==
    /\ prog = "image" /\ pc = "m_decode"
    /\ LET dec == decode_code_from_image(env.img, env.code_length)
       IN  /\ env' = [env EXCEPT !.extracted_code = dec.code_bytes]
           /\ pc' = IF dec.ok THEN "m_verify" ELSE "aborted"
           /\ err' = IF dec.ok THEN err ELSE "IndexError"
    /\ UNCHANGED << prog, cap, pad, junk, auth, region, handle, cpu, i, outs >>

\* if extracted_code != shellcode: return; success = execute_code(extracted_code)
M_Verify ==
    /\ prog = "image" /\ pc = "m_verify"
    /\ pc' = IF env.extracted_code # buf THEN "done" ELSE "x_mmap"
    /\ buf' = env.extracted_code
    /\ UNCHANGED << prog, env, machine >>

(***************************************************************************)
(* image_executor_v2.py: execute_code(code_bytes).  The region is as long  *)
(* as the code, the write and the bind precede the try block and the close *)
(* is in its finally clause.  A ctypes call raises no Python exception, so *)
(* the except clause is never entered.                                     *)
(***************************************************************************)
\* code_size = len(code_bytes); mem = mmap.mmap(-1, code_size, ...)
X_Mmap == prog = "image" /\ pc = "x_mmap" /\ DoMmap("x_write")

\* mem.write(code_bytes); mem.seek(0) -- before the try block
X_Write ==
    /\ prog = "image" /\ pc = "x_write"
    /\ DoWrite(-1, buf, TRUE, "x_bind", "aborted")
    /\ UNCHANGED << params, auth, handle, cpu, i, outs >>

\* func_type = ctypes.CFUNCTYPE(None); func = func_type(mem_address)
X_Bind == prog = "image" /\ pc = "x_bind" /\ DoBind("None", 0, "x_try")

\* try: func()
X_Call == prog = "image" /\ pc = "x_try" /\ DoCall(junk, "x_calling")

\* return True, by way of the finally clause
X_Return ==
    /\ prog = "image" /\ pc = "x_calling" /\ cpu.status = "returned"
    /\ cpu' = IdleCpu
    /\ pc' = "x_finally"
    /\ UNCHANGED << params, auth, region, handle, i, outs, err >>

\* finally: mem.close()
X_Finally == prog = "image" /\ pc = "x_finally" /\ DoClose("done")

(***************************************************************************)
(* code_stego_final.py.  A string is the sequence of the code points of    *)
(* its characters: 10 newline, 9 tab, 32 space.  A bit string ('0'/'1'     *)
(* characters in the script) is a sequence of 0 and 1.                     *)
(***************************************************************************)
NL == 10
TAB == 9
SPACE == 32

\* s[a:b] on a sequence, a and b counted from 0
Slice(s, a, b) == SubSeq(s, a + 1, IF b > Len(s) THEN Len(s) ELSE b)

RECURSIVE SplitFrom(_, _, _)
\* text.split('\n'): cur is the line being read, from character k on
SplitFrom(text, k, cur) ==
    IF k > Len(text) THEN << cur >>
    ELSE IF text[k] = NL THEN << cur >> \o SplitFrom(text, k + 1, << >>)
    ELSE SplitFrom(text, k + 1, Append(cur, text[k]))

SplitLines(text) == SplitFrom(text, 1, << >>)

RECURSIVE JoinLines(_)
\* '\n'.join(lines)
JoinLines(lines) ==
    IF Len(lines) = 0 THEN << >>
    ELSE IF Len(lines) = 1 THEN lines[1]
    ELSE lines[1] \o << NL >> \o JoinLines(Tail(lines))

\* key = "QUANTUM"
StegoKey == << 81, 85, 65, 78, 84, 85, 77 >>

\* def xor_encrypt(text, key): chr(ord(char) ^ ord(key[i % len(key)]))
xor_encrypt(text, key) ==
    [k \in 1..Len(text) |-> Xor8(text[k], key[((k - 1) % Len(key)) + 1])]

\* the eight bits of a character, the least significant first
Format08bLsbFirst(c) == [k \in 1..8 |-> (c \div (2 ^ (k - 1))) % 2]

\* format(ord(char), '08b') for a character below 256: eight bits, the
\* most significant first
Format08b(c) == [k \in 1..8 |-> (c \div (2 ^ (8 - k))) % 2]

RECURSIVE BinaryOf(_)
\* ''.join(format(ord(char), '08b') for char in encrypted)
BinaryOf(text) ==
    IF Len(text) = 0 THEN << >> ELSE Format08b(text[1]) \o BinaryOf(Tail(text))

\* the whitespace character of one bit
BitChar(b) == IF b = 0 THEN SPACE ELSE TAB

RECURSIVE EncodeGroups(_, _, _, _)
\* for _ in range(4): two bits as two whitespace characters, a last single
\* bit padded with a space, nothing once the bits are used up
EncodeGroups(binary_data, bit_index, g, whitespace) ==
    IF g = 4 THEN [whitespace |-> whitespace, bit_index |-> bit_index]
    ELSE IF bit_index + 1 < Len(binary_data)
    THEN EncodeGroups(binary_data, bit_index + 2, g + 1,
             whitespace \o << BitChar(binary_data[bit_index + 1]),
                              BitChar(binary_data[bit_index + 2]) >>)
    ELSE IF bit_index < Len(binary_data)
    THEN [whitespace |-> whitespace \o << SPACE, BitChar(binary_data[bit_index + 1]) >>,
          bit_index |-> bit_index + 1]
    ELSE EncodeGroups(binary_data, bit_index, g + 1, whitespace)

RECURSIVE EncodeLines(_, _, _, _)
\* for line in lines: modified_lines.append(line + whitespace)
EncodeLines(lines, k, binary_data, bit_index) ==
    IF k > Len(lines) THEN << >>
    ELSE LET e == EncodeGroups(binary_data, bit_index, 0, << >>)
         IN  << lines[k] \o e.whitespace >>
                 \o EncodeLines(lines, k + 1, binary_data, e.bit_index)

\* bits_per_line = 8; a message longer than the capacity is truncated
TruncatedBits(binary_data, lines) ==
    IF Len(binary_data) > Len(lines) * 8
    THEN Slice(binary_data, 0, Len(lines) * 8) ELSE binary_data

\* an encoder that writes its whitespace in front of the line
encode_message_in_front(source_code, secret_message) ==
    LET lines == SplitLines(source_code)
        bits == TruncatedBits(BinaryOf(xor_encrypt(secret_message, StegoKey)), lines)
        enc == EncodeLines([k \in 1..Len(lines) |-> << >>], 1, bits, 0)
    IN  JoinLines([k \in 1..Len(lines) |-> enc[k] \o lines[k]])

\* def encode_message_in_code(source_code, secret_message)
encode_message_in_code(source_code, secret_message) ==
    LET lines == SplitLines(source_code)
        bits == TruncatedBits(BinaryOf(xor_encrypt(secret_message, StegoKey)), lines)
    IN  JoinLines(EncodeLines(lines, 1, bits, 0))

RECURSIVE RStrip(_)
\* line.rstrip('\t ')
RStrip(line) ==
    IF Len(line) > 0 /\ line[Len(line)] \in {SPACE, TAB}
    THEN RStrip(SubSeq(line, 1, Len(line) - 1)) ELSE line

RECURSIVE DecodeTrailing(_, _)
\* while i + 1 < len(trailing): two characters give two bits; a single
\* character left over gives one bit
DecodeTrailing(trailing, idx) ==
    IF idx + 1 < Len(trailing)
    THEN << IF trailing[idx + 1] = SPACE THEN 0 ELSE 1,
            IF trailing[idx + 2] = SPACE THEN 0 ELSE 1 >>
             \o DecodeTrailing(trailing, idx + 2)
    ELSE IF idx < Len(trailing)
    THEN << IF trailing[idx + 1] = SPACE THEN 0 ELSE 1 >>
    ELSE << >>

RECURSIVE DecodeLines(_, _)
\* for line in lines: binary_data += the bits of the trailing whitespace
DecodeLines(lines, k) ==
    IF k > Len(lines) THEN << >>
    ELSE DecodeTrailing(Slice(lines[k], Len(RStrip(lines[k])), Len(lines[k])), 0)
             \o DecodeLines(lines, k + 1)

\* int(byte, 2) of eight bits
IntOfBits(byte) ==
    128 * byte[1] + 64 * byte[2] + 32 * byte[3] + 16 * byte[4]
        + 8 * byte[5] + 4 * byte[6] + 2 * byte[7] + byte[8]

RECURSIVE CharsOf(_, _)
\* for i in range(0, len(binary_data), 8): only whole bytes give a character
CharsOf(binary_data, idx) ==
    IF idx >= Len(binary_data) THEN << >>
    ELSE IF Len(Slice(binary_data, idx, idx + 8)) = 8
    THEN << IntOfBits(Slice(binary_data, idx, idx + 8)) >> \o CharsOf(binary_data, idx + 8)
    ELSE CharsOf(binary_data, idx + 8)

\* def decode_message_from_code(stego_code)
decode_message_from_code(stego_code) ==
    xor_encrypt(CharsOf(DecodeLines(SplitLines(stego_code), 1), 0), StegoKey)

\* stego_code = encode_message_in_code(SAMPLE_PROGRAM, SECRET)
S_Encode ==
    /\ prog = "stego" /\ pc = "s_encode"
    /\ env' = [env EXCEPT !.stego_code =
                   encode_message_in_code(env.source_code, env.secret_message)]
    /\ pc' = "s_decode"
    /\ UNCHANGED << prog, buf, machine >>

\* decoded = decode_message_from_code(stego_code)
S_Decode ==
    /\ prog = "stego" /\ pc = "s_decode"
    /\ env' = [env EXCEPT !.decoded = decode_message_from_code(env.stego_code)]
    /\ pc' = "s_validate"
    /\ UNCHANGED << prog, buf, machine >>

\* print(f"Match: {SECRET == decoded}")
S_Validate ==
    /\ prog = "stego" /\ pc = "s_validate"
    /\ env' = [env EXCEPT !.match = (env.secret_message = env.decoded)]
    /\ pc' = "done"
    /\ UNCHANGED << prog, buf, machine >>

(***************************************************************************)
(* dns_tunnel.py: data as A records (experiment 3) and an encoded payload  *)
(* as DNS labels (experiments 2 and 4).  Strings are sequences of code     *)
(* points; data.encode() and bytes.decode() are the identity on the ASCII  *)
(* characters the data is drawn from.                                      *)
(***************************************************************************)
DOT == 46
ZERO_DIGIT == 48
\* bytes per A record
RecordLen == 4
\* chunk_size = 63
chunk_size == 63

RECURSIVE Str(_)
\* str(b): the decimal digits of a non-negative integer
Str(n) ==
    IF n < 10 THEN << ZERO_DIGIT + n >>
    ELSE Append(Str(n \div 10), ZERO_DIGIT + (n % 10))

RECURSIVE IntOf(_)
\* int(x) of a string of decimal digits
IntOf(x) ==
    IF Len(x) = 0 THEN 0
    ELSE 10 * IntOf(SubSeq(x, 1, Len(x) - 1)) + (x[Len(x)] - ZERO_DIGIT)

RECURSIVE JoinWith(_, _)
\* sep.join(parts)
JoinWith(parts, sep) ==
    IF Len(parts) = 0 THEN << >>
    ELSE IF Len(parts) = 1 THEN parts[1]
    ELSE parts[1] \o << sep >> \o JoinWith(Tail(parts), sep)

RECURSIVE SplitAt(_, _, _, _)
\* s.split(sep) for a one-character sep, from character k on
SplitAt(s2, sep, k, cur) ==
    IF k > Len(s2) THEN << cur >>
    ELSE IF s2[k] = sep THEN << cur >> \o SplitAt(s2, sep, k + 1, << >>)
    ELSE SplitAt(s2, sep, k + 1, Append(cur, s2[k]))

\* chunk + b'\x00' * (4 - len(chunk))
PadChunk(chunk) == chunk \o [k \in 1..(RecordLen - Len(chunk)) |-> 0]

\* ip = '.'.join(str(b) for b in chunk)
IpOf(chunk) == JoinWith([k \in 1..Len(chunk) |-> Str(chunk[k])], DOT)

RECURSIVE IpRecords(_, _)
\* for i in range(0, len(data_bytes), 4): ip_records.append(ip)
IpRecords(data_bytes, idx) ==
    IF idx >= Len(data_bytes) THEN << >>
    ELSE << IpOf(PadChunk(Slice(data_bytes, idx, idx + RecordLen))) >>
             \o IpRecords(data_bytes, idx + RecordLen)

\* octets = [int(x) for x in ip.split('.')]
OctetsOf(ip) ==
    [k \in 1..Len(SplitAt(ip, DOT, 1, << >>)) |-> IntOf(SplitAt(ip, DOT, 1, << >>)[k])]

RECURSIVE DecodedBytes(_)
\* for ip in ip_records: decoded_bytes += bytes(octets)
DecodedBytes(ip_records) ==
    IF Len(ip_records) = 0 THEN << >>
    ELSE OctetsOf(ip_records[1]) \o DecodedBytes(Tail(ip_records))

RECURSIVE RStripZero(_)
\* decoded_bytes.rstrip(b'\x00')
RStripZero(b) ==
    IF Len(b) > 0 /\ b[Len(b)] = 0 THEN RStripZero(SubSeq(b, 1, Len(b) - 1)) ELSE b

\* data_bytes = data.encode(); the loop that fills ip_records
A_Encode ==
    /\ prog = "dns_a" /\ pc = "a_encode"
    /\ env' = [env EXCEPT !.ip_records = IpRecords(env.data, 0)]
    /\ pc' = "a_decode"
    /\ UNCHANGED << prog, buf, machine >>

\* decoded = decoded_bytes.rstrip(b'\x00').decode(); Match: decoded == data
A_Decode ==
    /\ prog = "dns_a" /\ pc = "a_decode"
    /\ env' = [env EXCEPT !.decoded = RStripZero(DecodedBytes(env.ip_records))]
    /\ pc' = "done"
    /\ UNCHANGED << prog, buf, machine >>

\* '.tunnel.example.com'
TunnelSuffix ==
    << 46, 116, 117, 110, 110, 101, 108, 46, 101, 120, 97, 109, 112, 108, 101,
       46, 99, 111, 109 >>

RECURSIVE LabelsDropping(_, _)
\* chunks that leave out the character between two labels
LabelsDropping(encoded, idx) ==
    IF idx >= Len(encoded) THEN << >>
    ELSE << Slice(encoded, idx, idx + chunk_size) >>
             \o LabelsDropping(encoded, idx + chunk_size + 1)

RECURSIVE LabelsOf(_, _)
\* [encoded[i:i+63] for i in range(0, len(encoded), 63)]
LabelsOf(encoded, idx) ==
    IF idx >= Len(encoded) THEN << >>
    ELSE << Slice(encoded, idx, idx + chunk_size) >>
             \o LabelsOf(encoded, idx + chunk_size)

\* labels = [...]; dns_query_domain = '.'.join(labels) + '.tunnel.example.com'
L_Split ==
    /\ prog = "dns_labels" /\ pc = "l_split"
    /\ env' = [env EXCEPT !.labels = LabelsOf(env.request_encoded, 0)]
    /\ pc' = "l_join"
    /\ UNCHANGED << prog, buf, machine >>

L_Join ==
    /\ prog = "dns_labels" /\ pc = "l_join"
    /\ env' = [env EXCEPT !.dns_query_domain = JoinWith(env.labels, DOT) \o TunnelSuffix]
    /\ pc' = "done"
    /\ UNCHANGED << prog, buf, machine >>

(***************************************************************************)
(* quantum_keygen_v2.py: main.  A source function asks its service over    *)
(* HTTP; what the service answers is an input of the call: either the      *)
(* request or the parsing of the answer raises, or the answer holds        *)
(* random_bytes.  None is the empty sequence and a value v the sequence     *)
(* << v >>.  env.calls is the history of the calls main has made, each     *)
(* with what it returned.  sha256 and the chi-square statistic are left    *)
(* out of keys and stats.                                                  *)
(***************************************************************************)
\* the sequences over S of length at most n
SeqsUpTo(S, n) == UNION {[1..k -> S] : k \in 0..n}

None == << >>
Some(v) == << v >>

\* the sources in the other order
sources_reversed ==
    << "get_quantum_random_randomorg", "get_quantum_random_qrandom",
       "get_quantum_random_anu" >>

\* sources = [get_quantum_random_anu, get_quantum_random_qrandom,
\*            get_quantum_random_randomorg]
sources ==
    << "get_quantum_random_anu", "get_quantum_random_qrandom",
       "get_quantum_random_randomorg" >>

\* the name a source function returns with its bits
SourceName(source_func) ==
    CASE source_func = "get_quantum_random_anu" -> "ANU_QRNG"
      [] source_func = "get_quantum_random_qrandom" -> "QRANDOM"
      [] source_func = "get_quantum_random_randomorg" -> "RANDOM_ORG_ATMOSPHERIC"

\* source_func(num_bits=512)
num_bits == 512

\* what a service can answer: nothing usable, or random_bytes
Responses ==
    {[ok |-> FALSE, random_bytes |-> << >>]}
        \cup {[ok |-> TRUE, random_bytes |-> b] : b \in SeqsUpTo({0, 165}, MaxRandomBytes)}

\* return random_bits[:num_bits], random_bytes, name; in the except clause
\* return None, None, None
SourceReturn(source_func, response) ==
    IF response.ok
    THEN [bits |-> Some(Slice(BinaryOf(response.random_bytes), 0, num_bits)),
          bytes_data |-> Some(response.random_bytes),
          name |-> Some(SourceName(source_func))]
    ELSE [bits |-> None, bytes_data |-> None, name |-> None]

\* one hexadecimal digit
HexDigit(d) == IF d < 10 THEN 48 + d ELSE 87 + d

RECURSIVE Hex(_)
\* bytes.hex()
Hex(b) ==
    IF Len(b) = 0 THEN << >>
    ELSE << HexDigit(b[1] \div 16), HexDigit(b[1] % 16) >> \o Hex(Tail(b))

\* generate_crypto_keys(quantum_bits, quantum_bytes, source)
generate_crypto_keys(quantum_bits, quantum_bytes, source) ==
    [aes256 |-> Hex(Slice(quantum_bytes, 0, 32)),
     rsa_seed |-> Hex(IF Len(quantum_bytes) >= 64 THEN Slice(quantum_bytes, 0, 64)
                      ELSE quantum_bytes),
     quantum_uuid |->
        JoinWith(<< Hex(Slice(quantum_bytes, 0, 4)), Hex(Slice(quantum_bytes, 4, 6)),
                    Hex(Slice(quantum_bytes, 6, 8)), Hex(Slice(quantum_bytes, 8, 10)),
                    Hex(Slice(quantum_bytes, 10, 16)) >>, 45)]

\* bits.count('1')
CountBit(bits, v) == Cardinality({k \in 1..Len(bits) : bits[k] = v})

\* verify_randomness(bits, source): ones / total divides by zero when there
\* are no bits
verify_randomness(bits, source) ==
    [ok |-> Len(bits) # 0,
     stats |-> [ones |-> CountBit(bits, 1), zeros |-> CountBit(bits, 0)]]

\* one turn of the loop that goes on after a source has returned bits
K_QueryOn ==
    /\ prog = "keygen" /\ pc = "k_loop"
    /\ \E response \in Responses :
          LET source_func == sources[env.idx + 1]
              ret == SourceReturn(source_func, response)
              found == ret.bits # None
              last == env.idx + 1 = Len(sources)
          IN  /\ env' = [env EXCEPT
                            !.calls = Append(@, [source_func |-> source_func, ret |-> ret]),
                            !.idx = @ + 1,
                            !.quantum_bits = IF found THEN ret.bits ELSE @,
                            !.quantum_bytes = IF found THEN ret.bytes_data ELSE @,
                            !.source_name = IF found THEN ret.name ELSE @]
              /\ pc' = IF last THEN "k_check" ELSE "k_loop"
    /\ UNCHANGED << prog, buf, machine >>

\* for source_func in sources: bits, bytes_data, name = source_func(num_bits=512);
\* if bits is not None: ...; break
K_Query ==
    /\ prog = "keygen" /\ pc = "k_loop"
    /\ \E response \in Responses :
          LET source_func == sources[env.idx + 1]
              ret == SourceReturn(source_func, response)
              found == ret.bits # None
              last == env.idx + 1 = Len(sources)
          IN  /\ env' = [env EXCEPT
                            !.calls = Append(@, [source_func |-> source_func, ret |-> ret]),
                            !.idx = @ + 1,
                            !.quantum_bits = IF found THEN ret.bits ELSE @,
                            !.quantum_bytes = IF found THEN ret.bytes_data ELSE @,
                            !.source_name = IF found THEN ret.name ELSE @]
              /\ pc' = IF found \/ last THEN "k_check" ELSE "k_loop"
    /\ UNCHANGED << prog, buf, machine >>

\* if quantum_bits is None: return None
K_AllFailed ==
    /\ prog = "keygen" /\ pc = "k_check" /\ env.quantum_bits = None
    /\ env' = [env EXCEPT !.result = "None"]
    /\ pc' = "done"
    /\ UNCHANGED << prog, buf, machine >>

\* keys = generate_crypto_keys(quantum_bits, quantum_bytes, source_name)
K_Generate ==
    /\ prog = "keygen" /\ pc = "k_check" /\ env.quantum_bits # None
    /\ env' = [env EXCEPT
                  !.keys = Some(generate_crypto_keys(env.quantum_bits[1],
                                                     env.quantum_bytes[1],
                                                     env.source_name[1]))]
    /\ pc' = "k_verify"
    /\ UNCHANGED << prog, buf, machine >>

\* stats = verify_randomness(quantum_bits, source_name)
K_Verify ==
    /\ prog = "keygen" /\ pc = "k_verify"
    /\ LET v == verify_randomness(env.quantum_bits[1], env.source_name[1])
       IN  /\ env' = [env EXCEPT !.stats = IF v.ok THEN Some(v.stats) ELSE @]
           /\ pc' = IF v.ok THEN "k_save" ELSE "failed"
           /\ err' = IF v.ok THEN err ELSE "ZeroDivisionError"
    /\ UNCHANGED << prog, buf, cap, pad, junk, lab, region, handle, cpu, i, outs >>

\* evidence = {...}; with open(evidence_file, 'w') as f: json.dump(evidence, f);
\* return evidence.  open raises when the evidence directory is missing.
K_Save ==
    /\ prog = "keygen" /\ pc = "k_save"
    /\ \E opened \in BOOLEAN :
          LET evidence == [source |-> env.source_name[1],
                           quantum_bits_sample |-> Slice(env.quantum_bits[1], 0, 256),
                           quantum_bytes_hex |-> Hex(env.quantum_bytes[1]),
                           keys |-> env.keys[1],
                           randomness_stats |-> env.stats[1]]
          IN  /\ env' = [env EXCEPT
                            !.evidence_file = IF opened THEN Some(evidence) ELSE @,
                            !.result = IF opened THEN "evidence" ELSE @]
              /\ pc' = IF opened THEN "done" ELSE "failed"
              /\ err' = IF opened THEN err ELSE "FileNotFoundError"
    /\ UNCHANGED << prog, buf, cap, pad, junk, lab, region, handle, cpu, i, outs >>

(***************************************************************************)
(* The specification.                                                      *)
(***************************************************************************)
Progs == {"fib", "part4", "part5", "part6", "validate", "image", "stego",
          "dns_a", "dns_labels", "keygen"}

\* the scripts that compute on data and map no memory
DataProgs == {"stego", "dns_a", "dns_labels", "keygen"}

\* source texts: a letter, a space, a tab and a newline in any order
Texts == SeqsUpTo({97, SPACE, TAB, NL}, MaxTextLen)

\* secret messages of 8-bit characters
Messages == SeqsUpTo({0, 65, 255}, MaxMessageLen)

\* data for the A records: ASCII characters, the NUL character among them
DataStrings == SeqsUpTo({0, 65, 122}, MaxDataLen)

\* encoded payloads of every length up to MaxPayloadLen, each character
\* telling its position
Payloads == {[k \in 1..n |-> 97 + (k % 26)] : n \in 0..MaxPayloadLen}

\* the local variables a data script starts with
FirstEnv(p) ==
    CASE p = "stego" ->
            {[source_code |-> t, secret_message |-> m, stego_code |-> << >>,
              decoded |-> << >>, match |-> FALSE] : t \in Texts, m \in Messages}
      [] p = "dns_a" ->
            {[data |-> d, ip_records |-> << >>, decoded |-> << >>] : d \in DataStrings}
      [] p = "dns_labels" ->
            {[request_encoded |-> e, labels |-> << >>, dns_query_domain |-> << >>] :
                e \in Payloads}
      [] p = "keygen" ->
            {[calls |-> << >>, idx |-> 0, quantum_bits |-> None,
              quantum_bytes |-> None, source_name |-> None, keys |-> None,
              stats |-> None, evidence_file |-> None, result |-> "running"]}
      [] OTHER -> {NoEnv}

\* the mmap length of the scripts (PageSize), one too small for any routine
\* and one too small for the Fibonacci routine only
Capacities == {SmallCap, MidCap, PageSize}

Pads == {k * PadStep : k \in 0..MaxPads}

JunkWords == {Zero32, << 204, 204, 204, 204 >>}

FirstPc(p) ==
    CASE p = "fib" -> "f_cmp_jle"
      [] p = "part4" -> "p4_mmap"
      [] p = "part5" -> "p5_mmap"
      [] p = "part6" -> "p6_mmap"
      [] p = "validate" -> "v_mmap"
      [] p = "image" -> "m_encode"
      [] p = "stego" -> "s_encode"
      [] p = "dns_a" -> "a_encode"
      [] p = "dns_labels" -> "l_split"
      [] p = "keygen" -> "k_loop"

\* the shellcode main encodes, decodes and executes: routines of 1 to
\* MaxImageNops + 1 bytes, and two that hold zero and high byte values
ImageCodes ==
    {Nops(k) \o << 195 >> : k \in 0..MaxImageNops}
        \cup {shellcode_return_42, code_deadbeef}

\* the bytes the script has before it starts
FirstBuf(p) ==
    CASE p = "fib" -> {<< >>}
      [] p = "part4" -> {shellcode_return_42}
      [] p = "part5" -> {base_code}
      [] p = "part6" -> {<< >>}
      [] p = "validate" -> {code_deadbeef}
      [] p = "image" -> ImageCodes
      [] OTHER -> {<< >>}

Init ==
    /\ prog \in Progs
    /\ buf \in FirstBuf(prog)
    /\ cap \in (IF prog = "image" THEN {Len(buf)}
                ELSE IF prog \in DataProgs THEN {PageSize} ELSE Capacities)
    /\ pad \in (IF prog = "fib" THEN Pads ELSE {0})
    /\ junk \in (IF prog \in DataProgs THEN {Zero32} ELSE JunkWords)
    /\ pc = FirstPc(prog)
    /\ lab = NoLab
    /\ region = NoRegion
    /\ handle = NoHandle
    /\ cpu = IdleCpu
    /\ i = 0
    /\ results = << >>
    /\ read_back = << >>
    /\ all_match = TRUE
    /\ err = "none"
    /\ env \in FirstEnv(prog)

Next ==
    \/ Fib_EmitCmpJle \/ Fib_EmitInit \/ Fib_MarkLoopStart \/ Fib_EmitLoopBody
    \/ Fib_EmitLoopJle \/ Fib_EmitReturnB \/ Fib_MarkReturnN \/ Fib_EmitReturnN
    \/ Fib_PatchJle
    \/ Fib_Mmap \/ Fib_Write \/ Fib_Bind \/ Fib_Call \/ Fib_Compare
    \/ Fib_LoopDone \/ Fib_PerfCall \/ Fib_PerfDone \/ Fib_Close
    \/ P4_Mmap \/ P4_Write \/ P4_Bind \/ P4_Call1 \/ P4_Ret1 \/ P4_Overwrite
    \/ P4_Call2 \/ P4_Ret2 \/ P4_Close
    \/ P5_Mmap \/ P5_Write \/ P5_Bind \/ P5_Call \/ P5_Append \/ P5_Patch
    \/ P5_FinalCall \/ P5_Final \/ P5_Close
    \/ V_Mmap \/ V_Write \/ V_ReadBack \/ V_Bind \/ V_Call \/ V_Ret \/ V_Close
    \/ P6_Mmap \/ P6_Generate \/ P6_Write \/ P6_Bind \/ P6_Call \/ P6_Check
    \/ P6_Close
    \/ M_Encode \/ M_Decode \/ M_Verify
    \/ S_Encode \/ S_Decode \/ S_Validate
    \/ A_Encode \/ A_Decode \/ L_Split \/ L_Join
    \/ K_Query \/ K_AllFailed \/ K_Generate \/ K_Verify \/ K_Save
    \/ X_Mmap \/ X_Write \/ X_Bind \/ X_Call \/ X_Return \/ X_Finally
    \/ CpuStep

Spec == Init /\ [][Next]_vars

\* the processor does not stop in the middle of a routine
FairSpec == Spec /\ WF_vars(CpuStep)

(***************************************************************************)
(* Properties.                                                             *)
(***************************************************************************)
InRange8(d) == d >= -128 /\ d <= 127

\* the backward jle has been emitted
LoopJleEmitted == prog = "fib" /\ lab.loop_end > 0

\* the forward jle has been patched
JlePatched == prog = "fib" /\ lab.jle_target_offset > 0

FirstEleven == << 0, 1, 1, 2, 3, 5, 8, 13, 21, 34, 55 >>

\* C1: the Fibonacci routine as committed (no padding), called with
\* n = 0, 1, 2, ..., returns fib_python(n) for every n called so far, and
\* 0,1,1,2,3,5,8,13,21,34,55 for n = 0..10.
C1_FibMatchesReference ==
    (prog = "fib" /\ pad = 0) =>
        \A k \in 1..Len(results) :
            /\ CInt(results[k]) = fib_python(k - 1)
            /\ k <= 11 => CInt(results[k]) = FirstEleven[k]

C1_Witness ==
    prog = "fib" /\ pad = 0 /\ Len(results) = 21 /\ CInt(results[21]) = 6765

\* C2: in PART 5 the k-th call returns (k - 1) * 100: 0 before the first
\* patch, then 100, 200, ... in order, one call per patch, and the script
\* ends with the eleven values 0, 100, ..., 1000.
C2_PatchSequence ==
    prog = "part5" =>
        /\ \A k \in 1..Len(results) : CInt(results[k]) = (k - 1) * PatchScale
        /\ Len(results) \in {i, i + 1}
        /\ pc = "done" => Len(results) = PatchRounds + 1

C2_Witness ==
    prog = "part5" /\ pc = "done" /\ CInt(results[Len(results)]) = 1000

\* C3: right after the first write of a buffer, reading the region from
\* offset 0 for len(buffer) bytes gives the buffer back; validate_mmap.py's
\* own read_back equals its code.
C3_CommitReadback ==
    /\ pc \in {"f_bind", "p4_bind", "p5_bind", "p6_bind", "x_bind", "v_read"} =>
          MmapReadBytes(MmapSeek(region, 0), Len(buf)) = buf
    /\ (prog = "validate" /\ pc \in {"v_bind", "v_call", "v_calling", "v_close", "done"}) =>
          read_back = code_deadbeef

C3_Witness ==
    prog = "validate" /\ pc = "v_bind" /\ read_back = code_deadbeef /\ Len(read_back) = 6

\* C4: a branch whose displacement does not fit a signed byte makes
\* authoring fail with DisplacementOutOfRange, and its low eight bits are
\* not written into the displacement byte.
C4_OutOfRangeRejected ==
    /\ (LoopJleEmitted /\ ~InRange8(lab.offset_to_loop)) =>
          /\ err = "DisplacementOutOfRange"
          /\ buf[lab.loop_end + 2] # LowByte(lab.offset_to_loop)
    /\ (JlePatched /\ ~InRange8(lab.jle_target_offset)) =>
          /\ err = "DisplacementOutOfRange"
          /\ buf[lab.jle_patch_pos + 1] # LowByte(lab.jle_target_offset)

\* C5: for each branch whose displacement fits a signed byte, the byte
\* written is its two's-complement encoding: the end of the instruction
\* plus the sign-extended byte is the label's offset, for the backward
\* branch to loop_start and for the forward branch to return_n alike.
C5_DisplacementEncodesLabel ==
    /\ (LoopJleEmitted /\ InRange8(lab.offset_to_loop)) =>
          /\ buf[lab.loop_end + 1] = 126
          /\ (lab.loop_end + 2) + SignExt8(buf[lab.loop_end + 2]) = lab.loop_start
          /\ lab.loop_start = 17
    /\ (JlePatched /\ InRange8(lab.jle_target_offset)) =>
          /\ buf[lab.jle_patch_pos] = 126
          /\ (lab.jle_patch_pos + 1) + SignExt8(buf[lab.jle_patch_pos + 1])
                = lab.return_n_pos
          /\ SubSeq(buf, lab.return_n_pos + 1, lab.return_n_pos + 3) = << 137, 248, 195 >>

C5_Witness ==
    /\ JlePatched /\ pad > 0
    /\ InRange8(lab.offset_to_loop) /\ InRange8(lab.jle_target_offset)
    /\ lab.offset_to_loop < 0 /\ lab.jle_target_offset > 0

\* C6: a write of a buffer longer than the region's capacity raises
\* ValueError and copies nothing: no byte of the region at or past the
\* capacity is ever written, and the script goes no further.
C6_OversizeCommitRejected ==
    /\ Len(region.data) <= region.size
    /\ (region.state # "none" /\ Len(buf) > cap
            /\ pc \notin {"f_write", "p4_write", "p5_write", "p6_write", "v_write"}) =>
          /\ err = "ValueError"
          /\ pc \in {"aborted", "failed"}
          /\ region.data = << >>
          /\ ~handle.bound

C6_Witness ==
    err = "ValueError" /\ Len(buf) > cap /\ region.state = "open" /\ region.pos = 0

\* C7: in PART 4 the call before the overwrite returns 42 and the call
\* after it, through the same function pointer, returns 1337; no call
\* after the overwrite returns 42.
C7_CallAfterOverwriteSeesNewBytes ==
    prog = "part4" =>
        /\ Len(results) <= 2
        /\ Len(results) >= 1 => CInt(results[1]) = 42
        /\ Len(results) >= 2 => CInt(results[2]) = 1337
        /\ pc \in {"p4_calling2", "p4_close", "done"} =>
              SubSeq(region.data, 1, 6) = shellcode_return_1337
        /\ pc \in {"p4_close", "done"} => Len(results) = 2

C7_Witness ==
    prog = "part4" /\ pc = "p4_close" /\ Len(results) = 2 /\ handle.bound

\* the state of the function pointer: usable while its region is mapped
HandleState ==
    IF ~handle.bound THEN "Unbound"
    ELSE IF region.state = "open" THEN "Bound" ELSE "Invalid"

\* C8: a function pointer is Bound from its creation until its region is
\* closed and Invalid from then on; calls keep it Bound, nothing leads from
\* Invalid back to Bound, and no call runs on a closed region.
C8_HandleLifecycle ==
    [][ /\ HandleState = "Bound" => HandleState' \in {"Bound", "Invalid"}
        /\ HandleState = "Invalid" => HandleState' = "Invalid"
        /\ cpu'.status # "idle" => HandleState' = "Bound"
        /\ (HandleState = "Bound" /\ cpu.status = "running") =>
              HandleState' = "Bound" ]_vars

C8_Witness ==
    HandleState = "Invalid" /\ Len(results) > 0 /\ pc = "done"

\* C9: a buffer whose branch displacement does not fit is rejected while
\* authoring, before any region is mapped: no mmap follows it.
C9_NoMappingAfterFailedResolution ==
    (JlePatched /\ (~InRange8(lab.offset_to_loop) \/ ~InRange8(lab.jle_target_offset))) =>
        /\ region.state = "none"
        /\ pc \notin {"f_write", "f_bind", "f_loop", "f_calling"}

ScriptEnded == pc \in {"done", "failed", "aborted"}

\* C11: every path of a script that mapped a region ends with the region
\* closed, the paths on which a write to the region raised included: no
\* script ends with its region still mapped.
C11_ReleasedOnEveryPath ==
    (ScriptEnded /\ region.state # "none") => region.state = "closed"


Labels == {"loop_start", "return_n_pos"}
Marked(name) == prog = "fib" /\ lab[name] > 0

\* C16: marking a label that is already marked is refused: whatever the
\* buffer has grown to since, the label keeps the offset of its first
\* marking and an error is raised.
C16_DuplicateMarkRejected ==
    \A name \in Labels :
        Marked(name) =>
            /\ MarkLabel(lab, name, buf) = lab
            /\ MarkLabel(lab, name, buf \o << 144 >>) = lab


C19_BindRejectsBadSignatureAndOffset ==
    region.state = "open" =>
        /\ ~BindAt(0, "c_int", 7).bound
        /\ ~BindAt(region.size, "c_int", 1).bound


C22_AddMulIs32Bit ==
    prog = "part6" =>
        /\ \A k \in 1..Len(results) :
              LET a == AllCases[k][1]
                  b == AllCases[k][2]
                  c == AllCases[k][3]
              IN  /\ CInt(results[k]) = WrappedAddMul(a, b, c)
                  /\ ~ExpectedOverflows(a, b, c) =>
                        CInt(results[k]) =
                            SumExact(a, SignedStep(b, c), Abs(CountOf(b, c)))
        /\ Len(results) <= Len(test_cases) => all_match
        /\ Len(results) >= 4 =>
              << CInt(results[1]), CInt(results[2]), CInt(results[3]),
                 CInt(results[4]) >> = << 7, 30, 100, 56 >>

C22_Witness ==
    /\ prog = "part6" /\ pc = "done" /\ Len(results) = Len(AllCases)
    /\ CInt(results[7]) = 1000000000 /\ CInt(results[8]) = 7
    /\ CInt(results[5]) = -17 /\ ~all_match


\* the bytes of the region after the step, outside offsets lo .. hi - 1,
\* are the bytes before it, and the bytes inside are the bytes written
WroteExactly(lo, bytes) ==
    \A off \in 0..(Len(region'.data) + 1) :
        IF off >= lo /\ off < lo + Len(bytes)
        THEN RegionByte(region', off) = bytes[off - lo + 1]
        ELSE RegionByte(region', off) = RegionByte(region, off)

\* C23: a write over a mapped region changes the bytes from its offset to
\* its offset plus its length and no other byte; no step changes the size
\* or the protection of a mapped region or the offset a function pointer
\* enters at; in PART 5 the opcode at offset 0 stays 0xb8 and the ret at
\* offset 5 stays 0xc3 through every patch.
C23_OverwriteFrame ==
    /\ [][ /\ (pc = "p5_patch" /\ pc' = "p5_loop") => WroteExactly(1, new_bytes(i))
           /\ (pc = "p4_overwrite" /\ pc' = "p4_call2") =>
                 WroteExactly(0, shellcode_return_1337)
           /\ (pc = "p6_write" /\ pc' = "p6_bind") => WroteExactly(0, buf)
           /\ (region.state = "open" /\ region'.state = "open") =>
                 (region'.size = region.size /\ region'.prot = region.prot)
           /\ (handle.bound /\ handle'.bound) => handle'.offset = handle.offset
           /\ region'.data # region.data =>
                 pc \in {"f_write", "p4_write", "p4_overwrite", "p5_write",
                         "p5_patch", "p6_write", "v_write", "x_write"} ]_vars
    /\ []((prog = "part5" /\ Len(region.data) > 0) =>
             (RegionByte(region, 0) = 184 /\ RegionByte(region, 5) = 195))

C23_Witness ==
    /\ prog = "part5" /\ pc = "p5_loop" /\ i = 3
    /\ SubSeq(region.data, 2, 5) = new_bytes(2)
    /\ RegionByte(region, 0) = 184 /\ RegionByte(region, 5) = 195


\* a call of the Fibonacci routine is in flight and both its branches have
\* a displacement that fits
FibCallRuns ==
    /\ prog = "fib" /\ cpu.status = "running"
    /\ InRange8(lab.offset_to_loop) /\ InRange8(lab.jle_target_offset)

\* the argument of the call in flight
ArgN == CInt(Reg(cpu, EDI))

\* C24: every call of the Fibonacci routine with n in 0..20 reaches a ret.
\* For n <= 1 the processor goes from the first jle straight to return_n
\* and is never inside the loop; for n >= 2 it never reaches return_n, the
\* counter ecx is 2 at the first pass through loop_start, changes only at
\* the inc, by one, and is n + 1 when the loop is left: n - 1 iterations.
C24_FibTerminates ==
    /\ [](FibCallRuns =>
            /\ ArgN \in 0..MaxN \/ ArgN = PerfN
            /\ ArgN <= 1 =>
                  cpu.ip \in {0, 3, lab.return_n_pos, lab.return_n_pos + 2}
            /\ ArgN >= 2 =>
                  /\ cpu.ip < lab.return_n_pos
                  /\ cpu.ip = lab.loop_start =>
                        CInt(Reg(cpu, ECX)) \in 2..ArgN
                  /\ cpu.ip = lab.loop_end + 2 =>
                        CInt(Reg(cpu, ECX)) = ArgN + 1)
    /\ [][(FibCallRuns /\ cpu'.status = "running" /\ cpu.ip >= lab.loop_start) =>
              CInt(Reg(cpu', ECX)) =
                  (IF cpu.ip = lab.loop_end - 4
                   THEN CInt(Reg(cpu, ECX)) + 1 ELSE CInt(Reg(cpu, ECX)))]_vars
    /\ (FibCallRuns ~> (cpu.status = "returned"))

C24_Witness ==
    /\ prog = "fib" /\ pad = 0 /\ cpu.status = "returned" /\ cpu.ip = lab.loop_end + 4
    /\ ArgN = MaxN /\ CInt(Reg(cpu, ECX)) = MaxN + 1


\* the image has been encoded from the shellcode in buf
ImageEncoded == prog = "image" /\ pc \in {"m_decode", "m_verify"}

NoTrailingWhitespace(text) ==
    \A k \in 1..Len(SplitLines(text)) :
        RStrip(SplitLines(text)[k]) = SplitLines(text)[k]

\* C26: for a source whose lines end in no space or tab and a message of
\* 8-bit characters no longer than the number of lines, decoding the
\* encoded source gives the message back, and the script reports a match.
C26_StegoRoundTrip ==
    (/\ prog = "stego" /\ pc \in {"s_validate", "done"}
     /\ NoTrailingWhitespace(env.source_code)
     /\ Len(env.secret_message) <= Len(SplitLines(env.source_code))) =>
        /\ env.decoded = env.secret_message
        /\ pc = "done" => env.match

C26_Witness ==
    /\ prog = "stego" /\ pc = "done" /\ env.match
    /\ NoTrailingWhitespace(env.source_code)
    /\ Len(SplitLines(env.source_code)) = 2
    /\ env.secret_message = << 255, 65 >>
    /\ Len(env.stego_code) = Len(env.source_code) + 16


\* what the encoder put after line k of the source
Appended(k) ==
    Slice(SplitLines(env.stego_code)[k], Len(SplitLines(env.source_code)[k]),
          Len(SplitLines(env.stego_code)[k]))

\* C27: the encoded text has as many lines as the source; each of its
\* lines is the source line followed by 0, 2, 4, 6 or 8 spaces and tabs;
\* the lines take eight bits of the message each, in order, and a message
\* with more characters than the source has lines is cut at that capacity
\* with no other character changed.
C27_StegoOnlyAppendsWhitespace ==
    (prog = "stego" /\ pc # "s_encode") =>
        LET src == SplitLines(env.source_code)
            out == SplitLines(env.stego_code)
        IN  /\ Len(out) = Len(src)
            /\ \A k \in 1..Len(src) :
                  /\ Len(out[k]) >= Len(src[k])
                  /\ SubSeq(out[k], 1, Len(src[k])) = src[k]
                  /\ \A j \in 1..Len(Appended(k)) : Appended(k)[j] \in {SPACE, TAB}
                  /\ Len(Appended(k)) \in {0, 2, 4, 6, 8}
                  /\ Len(Appended(k)) = (IF k <= Len(env.secret_message) THEN 8 ELSE 0)
            /\ Len(env.stego_code) - Len(env.source_code) <= 8 * Len(src)

C27_Witness ==
    /\ prog = "stego" /\ pc = "done"
    /\ Len(SplitLines(env.source_code)) = 1 /\ Len(env.secret_message) = 2
    /\ env.source_code = << 97, SPACE >>
    /\ Len(env.stego_code) = 10 /\ SubSeq(env.stego_code, 1, 2) = << 97, SPACE >>


\* C28: data encoded as A records and decoded back is the data again, for
\* every data; there are ceil(len(data) / 4) records, each of four octets
\* between 0 and 255.
C28_ARecordRoundTrip ==
    (prog = "dns_a" /\ pc = "done") =>
        /\ env.decoded = env.data
        /\ Len(env.ip_records) = (Len(env.data) + 3) \div 4
        /\ \A k \in 1..Len(env.ip_records) :
              /\ Len(OctetsOf(env.ip_records[k])) = 4
              /\ \A j \in 1..4 : OctetsOf(env.ip_records[k])[j] \in 0..255

RECURSIVE Concat(_)
\* the labels one after the other
Concat(parts) == IF Len(parts) = 0 THEN << >> ELSE parts[1] \o Concat(Tail(parts))

\* C29: the labels a payload is split into have between 1 and 63
\* characters, all but the last exactly 63; put together in order they are
\* the payload, and there are ceil(len(payload) / 63) of them.
C29_LabelsPartitionPayload ==
    (prog = "dns_labels" /\ pc # "l_split") =>
        /\ \A k \in 1..Len(env.labels) :
              /\ Len(env.labels[k]) >= 1 /\ Len(env.labels[k]) <= 63
              /\ k < Len(env.labels) => Len(env.labels[k]) = 63
        /\ Concat(env.labels) = env.request_encoded
        /\ Len(env.labels) = (Len(env.request_encoded) + 62) \div 63
        /\ pc = "done" =>
              Len(env.dns_query_domain) =
                  Len(env.request_encoded)
                      + (IF Len(env.labels) > 0 THEN Len(env.labels) - 1 ELSE 0)
                      + Len(TunnelSuffix)

C29_Witness ==
    /\ prog = "dns_labels" /\ pc = "done" /\ Len(env.request_encoded) = 127
    /\ Len(env.labels) = 3 /\ Len(env.labels[3]) = 1
    /\ env.labels[2][1] = env.request_encoded[64]


\* the calls main has made so far: the first sources, in their order
InSourceOrder ==
    /\ Len(env.calls) <= 3
    /\ \A k \in 1..Len(env.calls) :
          env.calls[k].source_func
              = << "get_quantum_random_anu", "get_quantum_random_qrandom",
                   "get_quantum_random_randomorg" >>[k]

\* every call but the last one returned no bits
OnlyLastSucceeded == \A k \in 1..(Len(env.calls) - 1) : env.calls[k].ret.bits = None

\* what main holds is what its last call returned, and that call's source
\* is the one the name tells
FromOneSource ==
    env.quantum_bits # None =>
        LET last == env.calls[Len(env.calls)]
        IN  /\ env.quantum_bits = last.ret.bits
            /\ env.quantum_bytes = last.ret.bytes_data
            /\ env.source_name = last.ret.name
            /\ env.source_name[1]
                  = (CASE last.source_func = "get_quantum_random_anu" -> "ANU_QRNG"
                       [] last.source_func = "get_quantum_random_qrandom" -> "QRANDOM"
                       [] last.source_func = "get_quantum_random_randomorg" ->
                             "RANDOM_ORG_ATMOSPHERIC")
            /\ env.keys # None =>
                  env.keys[1] = generate_crypto_keys(last.ret.bits[1],
                                                     last.ret.bytes_data[1],
                                                     last.ret.name[1])
            /\ env.evidence_file # None =>
                  /\ env.evidence_file[1].source = last.ret.name[1]
                  /\ env.evidence_file[1].quantum_bytes_hex = Hex(last.ret.bytes_data[1])
                  /\ env.evidence_file[1].keys = env.keys[1]

\* all three sources were asked and none returned bits
AllSourcesFailed ==
    /\ Len(env.calls) = 3
    /\ \A k \in 1..3 : env.calls[k].ret.bits = None

\* C30: main asks the sources in the order ANU, QRANDOM, Random.org and
\* asks no source after one has returned bits; the bits, the bytes and the
\* source name it uses are those of that one source; when all three fail it
\* returns None, with no keys generated and no evidence file written.
C30_FirstSourceWins ==
    /\ [](prog = "keygen" =>
            /\ InSourceOrder
            /\ OnlyLastSucceeded
            /\ FromOneSource
            /\ (env.keys # None \/ env.evidence_file # None) => env.quantum_bits # None
            /\ (ScriptEnded /\ AllSourcesFailed) =>
                  /\ pc = "done" /\ env.result = "None"
                  /\ env.keys = None /\ env.evidence_file = None
            /\ (pc = "k_check" /\ env.quantum_bits = None) => AllSourcesFailed)
    /\ [][(prog = "keygen" /\ env.calls' # env.calls) =>
            /\ env.quantum_bits = None
            /\ Len(env.calls') = Len(env.calls) + 1
            /\ SubSeq(env.calls', 1, Len(env.calls)) = env.calls]_vars

C30_Witness ==
    /\ prog = "keygen" /\ pc = "done" /\ Len(env.calls) = 2
    /\ env.calls[1].ret.bits = None
    /\ env.source_name = << "QRANDOM" >>
    /\ env.evidence_file # None
    /\ env.quantum_bytes = << << 0, 165 >> >>

\* all three sources failed and main returned None
C30_WitnessAllFailed ==
    prog = "keygen" /\ pc = "done" /\ AllSourcesFailed /\ env.result = "None"

=============================================================================
